---- MODULE Spec2Model ----
(***************************************************************************)
(* Paint shop sequencing (paint_shop.ipynb): the greedy colouring          *)
(* heuristic and the GAMSPy optimisation models, for the binary paint shop *)
(* problem (cells 4-11) and the multi vehicle paint shop problem (cells    *)
(* 12-18).                                                                 *)
(*                                                                         *)
(* One behaviour is one run of the notebook cells of a variant on one      *)
(* instance: the heuristic scan (one step per car of the sequence), then   *)
(* the solve of the optimisation model.  The instance (sequence, demand    *)
(* dictionaries) is an input: the notebook samples it at random, and the   *)
(* heuristic and model cells read it from the global names, so Init draws  *)
(* it from all sequences up to MaxLen cars over NumTypes car types and all *)
(* demand dictionaries keyed by the types of the sequence, the ones whose  *)
(* demands do not add up to the occurrence counts included.                *)
(***************************************************************************)
EXTENDS Integers, Sequences, FiniteSets, TLC

\* Bounds of the model.
MaxLen == 4
NumTypes == 2

TypeNames == <<"A", "B", "C", "D", "E", "F">>

SmallTypes == {TypeNames[n] : n \in 1..NumTypes}

\* The sequence of the binary paint shop problem (cell 4).
FixedSequence == <<"A", "D", "E", "B", "A", "F", "C", "B", "C", "D", "E", "F">>

VARIABLES
    variant,        \* "binary" (cells 4-11) or "general" (cells 12-18)
    sequence,       \* the cars in arrival order, positions 1..N
    demand_white,   \* general: car type -> number to paint white
    demand_black,   \* general: car type -> number to paint black
    colors,         \* heuristic bookkeeping, per colour: binary, the set of
                    \* types already painted; general, the remaining demand
    result,         \* heuristic: the colours painted so far
    current_color,  \* heuristic: the colour the shop is set to
    changes,        \* heuristic: the change counter
    pos,            \* heuristic: position of the next car of the for loop
    pc,             \* "heuristic", "model" or "done"
    X,              \* level of the binary variable X[i] after the solve
    Z,              \* level of the binary variable Z[i] after the solve
    model_status,   \* "none" before the solve, then "optimal" or "infeasible"
    opt_changes     \* the objective value read after the solve

vars == <<variant, sequence, demand_white, demand_black, colors, result,
          current_color, changes, pos, pc, X, Z, model_status, opt_changes>>

input == <<variant, sequence, demand_white, demand_black>>
heuristic == <<colors, result, current_color, changes, pos>>
solver == <<X, Z, model_status, opt_changes>>

N == Len(sequence)

----------------------------------------------------------------------------
\* Data

\* types = set(sequence)
types(seq) == {seq[n] : n \in DOMAIN seq}

\* sequence.count(t)
count(seq, t) == Cardinality({n \in DOMAIN seq : seq[n] = t})

\* IJ records: (i + 1, sequence[i]) for every position
IJ(seq) == {<<n, seq[n]>> : n \in DOMAIN seq}

\* The positions i with (i, j) in IJ.
PositionsOf(seq, j) == {n \in DOMAIN seq : <<n, j>> \in IJ(seq)}

Sequences == UNION {[1..n -> SmallTypes] : n \in 1..MaxLen}

\* The demand dictionaries: random.randint(0, sequence.count(t)) for the white
\* demand and sequence.count(t) - demand_white[t] for the black demand, and
\* every other dictionary that demands no type more often than it occurs.
Demands(seq) == {d \in [types(seq) -> 0..Len(seq)] : \A t \in types(seq) : d[t] <= count(seq, t)}

----------------------------------------------------------------------------
\* Heuristic

\* The shop set to black at the start.
InitialColorBlack == "black"

\* current_color = "white"
InitialColor == "white"

\* The change of colour left out.
SameColor(color) == color

\* if current_color == "white": current_color = "black" else: current_color = "white"
OtherColor(color) == IF color = "white" THEN "black" ELSE "white"

\* binary: `car not in colors[current_color]`
NotPainted(colors_dict, color, car_type) == car_type \notin colors_dict[color]

\* The test `>= 0` in place of `> 0`.
HasDemandOrNone(colors_dict, color, car_type) == colors_dict[color][car_type] >= 0

\* general: `colors[current_color][car] > 0`
HasDemand(colors_dict, color, car_type) == colors_dict[color][car_type] > 0

\* binary paint_car: colors_dict[color].add(car_type); result_list.append(color)
paint_car_binary(colors_dict, result_list, color, car_type) ==
    [colors |-> [colors_dict EXCEPT ![color] = @ \cup {car_type}],
     result |-> Append(result_list, color)]

\* paint_car without the append.
paint_car_no_append(colors_dict, result_list, color, car_type) ==
    [colors |-> [colors_dict EXCEPT ![color][car_type] = @ - 1],
     result |-> result_list]

\* paint_car without the decrement.
paint_car_no_decrement(colors_dict, result_list, color, car_type) ==
    [colors |-> colors_dict,
     result |-> Append(result_list, color)]

\* general paint_car: colors_dict[color][car_type] -= 1; result_list.append(color)
paint_car(colors_dict, result_list, color, car_type) ==
    [colors |-> [colors_dict EXCEPT ![color][car_type] = @ - 1],
     result |-> Append(result_list, color)]

\* One iteration of `for car in sequence` of the binary heuristic.
HeuristicBinary ==
    /\ pc = "heuristic"
    /\ variant = "binary"
    /\ pos <= N
    /\ LET car == sequence[pos]
           keep == NotPainted(colors, current_color, car)
           color == IF keep THEN current_color ELSE OtherColor(current_color)
           painted == paint_car_binary(colors, result, color, car)
       IN  /\ changes' = (IF keep THEN changes ELSE changes + 1)
           /\ current_color' = color
           /\ colors' = painted.colors
           /\ result' = painted.result
    /\ pos' = pos + 1
    /\ pc' = (IF pos + 1 > N THEN "model" ELSE "heuristic")
    /\ UNCHANGED <<input, solver>>

\* One iteration of `for car in sequence` of the general-demand heuristic.
HeuristicGeneral ==
    /\ pc = "heuristic"
    /\ variant = "general"
    /\ pos <= N
    /\ LET car == sequence[pos]
           keep == HasDemand(colors, current_color, car)
           color == IF keep THEN current_color ELSE OtherColor(current_color)
           painted == paint_car(colors, result, color, car)
       IN  /\ changes' = (IF keep THEN changes ELSE changes + 1)
           /\ current_color' = color
           /\ colors' = painted.colors
           /\ result' = painted.result
    /\ pos' = pos + 1
    /\ pc' = (IF pos + 1 > N THEN "model" ELSE "heuristic")
    /\ UNCHANGED <<input, solver>>

----------------------------------------------------------------------------
\* Optimisation models

Binary(seq) == [DOMAIN seq -> {0, 1}]

\* i.lead(1): a linear lead; beyond the last element of i the reference
\* does not exist and the term is zero, while the equation (or the summand)
\* of the last element is still generated.
lead(x, n) == IF n + 1 \in DOMAIN x THEN x[n + 1] ELSE 0

\* The difference taken without the square.
sqr_dropped(v) == v

\* gamspy.math.sqr
sqr(v) == v * v

RECURSIVE SumOver(_, _)
\* gp.Sum over the index set S of the term f[i]
SumOver(S, f) ==
    IF S = {} THEN 0
    ELSE LET n == CHOOSE m \in S : TRUE IN f[n] + SumOver(S \ {n}, f)

\* equation_two with `<=` in place of `==`.
equation_two_at_most(seq, x) ==
    \A j \in types(seq) : SumOver(PositionsOf(seq, j), x) <= 1

\* equation_two[j] = gp.Sum(IJ[i, j], X[i]) == 1
equation_two(seq, x) ==
    \A j \in types(seq) : SumOver(PositionsOf(seq, j), x) = 1

\* obj = gp.Sum(i, sqr(X[i] - X[i.lead(1)]))
obj(x) == SumOver(DOMAIN x, [n \in DOMAIN x |-> sqr(x[n] - lead(x, n))])

\* LinearizeObjective1[i] = Z[i] >= X[i] - X[i.lead(1)]
LinearizeObjective1(x, z) == \A n \in DOMAIN x : z[n] >= x[n] - lead(x, n)

\* LinearizeObjective2[i] = Z[i] >= X[i.lead(1)] - X[i]
LinearizeObjective2(x, z) == \A n \in DOMAIN x : z[n] >= lead(x, n) - x[n]

\* MeetBlackDemand[j] = gp.Sum(IJ[i, j], X[i]) == black_demand[j]
MeetBlackDemand(seq, black, x) ==
    \A j \in types(seq) : SumOver(PositionsOf(seq, j), x) = black[j]

\* MeetWhiteDemand[j] = gp.Sum(IJ[i, j], 1 - X[i]) == white_demand[j]
MeetWhiteDemand(seq, white, x) ==
    \A j \in types(seq) :
        SumOver(PositionsOf(seq, j), [n \in DOMAIN x |-> 1 - x[n]]) = white[j]

\* objective = gp.Sum(i, Z[i])
SumZ(z) == SumOver(DOMAIN z, z)

\* The points of the paintshop model (binary X, equation_two).
PaintshopPoints(seq) == {x \in Binary(seq) : equation_two(seq, x)}

\* The points of the MultiPaintshop model: binary X and Z and its four equations.
MultiPaintshopPoints(seq, white, black) ==
    LET xs == {x \in Binary(seq) : /\ MeetWhiteDemand(seq, white, x)
                                   /\ MeetBlackDemand(seq, black, x)}
    IN  {p \in xs \X Binary(seq) : /\ LinearizeObjective1(p[1], p[2])
                                   /\ LinearizeObjective2(p[1], p[2])}

MinOf(S) == CHOOSE v \in S : \A w \in S : v <= w

\* paintshop.solve(solver="sbb"); opt_changes = paintshop.objective_value.
\* The solver returns one of the points of least objective value; which one is
\* its choice.  (points and best are bound by \E so that each is computed once.)
SolveBinary ==
    /\ pc = "model"
    /\ variant = "binary"
    /\ \E points \in {PaintshopPoints(sequence)} :
        \E best \in {IF points = {} THEN 0 ELSE MinOf({obj(x) : x \in points})} :
           IF points = {}
           THEN /\ model_status' = "infeasible"
                /\ UNCHANGED <<X, Z, opt_changes>>
           ELSE /\ model_status' = "optimal"
                /\ \E x \in points :
                      /\ obj(x) = best
                      /\ X' = x
                /\ opt_changes' = best
                /\ UNCHANGED Z
    /\ pc' = "done"
    /\ UNCHANGED <<input, heuristic>>

\* multi_paintshop.solve(solver="cplex"); opt_changes = multi_paintshop.objective_value.
SolveGeneral ==
    /\ pc = "model"
    /\ variant = "general"
    /\ \E points \in {MultiPaintshopPoints(sequence, demand_white, demand_black)} :
        \E best \in {IF points = {} THEN 0 ELSE MinOf({SumZ(p[2]) : p \in points})} :
           IF points = {}
           THEN /\ model_status' = "infeasible"
                /\ UNCHANGED <<X, Z, opt_changes>>
           ELSE /\ model_status' = "optimal"
                /\ \E p \in points :
                      /\ SumZ(p[2]) = best
                      /\ X' = p[1]
                      /\ Z' = p[2]
                /\ opt_changes' = best
    /\ pc' = "done"
    /\ UNCHANGED <<input, heuristic>>

----------------------------------------------------------------------------
\* Specification

InitRun ==
    /\ result = <<>>
    /\ current_color = InitialColor
    /\ changes = 0
    /\ pos = 1
    /\ pc = "heuristic"
    /\ X = <<>>
    /\ Z = <<>>
    /\ model_status = "none"
    /\ opt_changes = 0

InitBinary ==
    /\ variant = "binary"
    /\ sequence \in Sequences \cup {FixedSequence}
    /\ demand_white = <<>>
    /\ demand_black = <<>>
    /\ colors = [c \in {"white", "black"} |-> {}]

InitGeneral ==
    /\ variant = "general"
    /\ sequence \in Sequences
    /\ demand_white \in Demands(sequence)
    /\ demand_black \in Demands(sequence)
    /\ colors = [c \in {"white", "black"} |->
                    IF c = "white" THEN demand_white ELSE demand_black]

Init == (InitBinary \/ InitGeneral) /\ InitRun

Next == HeuristicBinary \/ HeuristicGeneral \/ SolveBinary \/ SolveGeneral

Spec == Init /\ [][Next]_vars

----------------------------------------------------------------------------
\* What the claims speak of

\* The instance is valid: binary, every type occurs exactly twice; general,
\* the two demands of every type add up to its number of occurrences.
ValidInstance ==
    IF variant = "binary"
    THEN \A t \in types(sequence) : count(sequence, t) = 2
    ELSE \A t \in types(sequence) :
            demand_white[t] + demand_black[t] = count(sequence, t)

WhiteDemand(t) == IF variant = "binary" THEN 1 ELSE demand_white[t]

BlackDemand(t) == IF variant = "binary" THEN 1 ELSE demand_black[t]

\* The number of adjacent positions whose states differ.
ChangeCount(a) == Cardinality({n \in 1..(Len(a) - 1) : a[n] # a[n + 1]})

\* The number of cars of type t painted in colour c by the assignment a.
Painted(a, t, c) == Cardinality({n \in DOMAIN sequence : sequence[n] = t /\ a[n] = c})

FeasibleAssignment(a) ==
    /\ DOMAIN a = DOMAIN sequence
    /\ \A t \in types(sequence) : /\ Painted(a, t, "white") = WhiteDemand(t)
                                  /\ Painted(a, t, "black") = BlackDemand(t)

\* The assignment the solve returns.  General: X[i] = 1 is black (MeetBlackDemand
\* sums X).  Binary: the model does not tell the colours apart, and the notebook
\* takes the colour of the first car for white.
ExactAssignment ==
    [n \in DOMAIN X |->
        IF variant = "binary"
        THEN (IF X[n] = X[1] THEN "white" ELSE "black")
        ELSE (IF X[n] = 1 THEN "black" ELSE "white")]

\* The least number of changes of a feasible assignment.
MinChangeCount ==
    MinOf({ChangeCount(a) : a \in {b \in [DOMAIN sequence -> {"white", "black"}] :
                                        FeasibleAssignment(b)}})

Solved == pc = "done" /\ model_status = "optimal"

----------------------------------------------------------------------------
\* Claims

\* C1: on every valid instance the assignment of the greedy heuristic and the
\* assignment of the exact optimizer are both feasible: every type has exactly
\* its white demand of positions painted white and its black demand painted black.
C1_BothFeasible ==
    ValidInstance =>
        /\ pc # "heuristic" => FeasibleAssignment(result)
        /\ pc = "done" => (model_status = "optimal" /\ FeasibleAssignment(ExactAssignment))

C1_Witness ==
    /\ variant = "general" /\ ValidInstance /\ Solved
    /\ Len(sequence) >= 3 /\ changes >= 2
    /\ Cardinality(types(sequence)) = 2

\* C2: on every valid instance the assignment the exact optimizer returns has
\* the least number of changes of all feasible assignments, and the objective
\* value it reports is that least number.
C2_ExactMinimal ==
    (variant = "general" /\ ValidInstance /\ Solved) =>
        /\ ChangeCount(ExactAssignment) = MinChangeCount
        /\ opt_changes = MinChangeCount

\* C3: on every valid instance the change count the greedy heuristic reports
\* is at least the change count (objective value) the exact optimizer reports.
C3_GreedyAtLeastExact ==
    (ValidInstance /\ Solved) => changes >= opt_changes

\* C4: on the binary instance A D E B A F C B C D E F the exact optimizer
\* reports 2 changes and the greedy heuristic reports 4 changes with the
\* assignment w w w w b b b b w b b w.
C4_FixedInstance ==
    (variant = "binary" /\ sequence = FixedSequence) =>
        /\ pc # "heuristic" =>
              /\ changes = 4
              /\ result = <<"white", "white", "white", "white", "black", "black",
                            "black", "black", "white", "black", "black", "white">>
        /\ pc = "done" =>
              /\ model_status = "optimal"
              /\ opt_changes = 2
              /\ ChangeCount(ExactAssignment) = 2

C4_Witness == variant = "binary" /\ sequence = FixedSequence /\ Solved

\* C5: round trip: on every valid instance, counting the adjacent positions of
\* a solver's assignment whose states differ gives the change count that solver
\* reports (the greedy's changes counter, the optimizer's objective value).
C5_RoundTrip ==
    (ValidInstance /\ Solved) =>
        /\ ChangeCount(result) = changes
        /\ ChangeCount(ExactAssignment) = opt_changes

\* C6: on every valid instance of length 1 both the greedy heuristic and the
\* exact optimizer report 0 changes.
C6_LengthOne ==
    (ValidInstance /\ Solved /\ Len(sequence) = 1) =>
        (changes = 0 /\ opt_changes = 0)

\* C7: on every valid instance that demands every car white (black demand 0
\* for all types) the exact optimizer reports 0 changes, and the greedy
\* heuristic reports 0 changes, never flips and paints every position white.
C7_AllWhite ==
    (variant = "general" /\ ValidInstance
        /\ \A t \in types(sequence) : demand_black[t] = 0) =>
        /\ changes = 0
        /\ current_color = "white"
        /\ \A n \in DOMAIN result : result[n] = "white"
        /\ pc = "done" => (model_status = "optimal" /\ opt_changes = 0)

C7_Witness ==
    /\ variant = "general" /\ ValidInstance /\ Solved
    /\ \A t \in types(sequence) : demand_black[t] = 0
    /\ Len(sequence) >= 3
    /\ Cardinality(types(sequence)) = 2

\* Neither colour has remaining capacity for the car the scan is at.
BothExhausted ==
    /\ variant = "general"
    /\ pc = "heuristic"
    /\ colors["white"][sequence[pos]] <= 0
    /\ colors["black"][sequence[pos]] <= 0

\* C8: when the current state and, after the flip, the new state both have no
\* remaining capacity for the type at hand, the greedy heuristic fails instead
\* of assigning: it appends no state for the position and drives no capacity
\* counter below zero.
C8_FailsWhenExhausted ==
    [][BothExhausted => (result' = result /\ colors' = colors)]_vars

\* C9: the greedy heuristic terminates after exactly N scan steps: while
\* positions remain a step can be taken, every step consumes one position and
\* appends one state, the state chosen at that position, and the scan is over
\* exactly when N positions are consumed, the assignment then having length N.
C9_Terminates ==
    /\ [](/\ Len(result) = pos - 1
          /\ pos <= Len(sequence) + 1
          /\ (pc = "heuristic" <=> pos <= Len(sequence))
          /\ (pc = "heuristic" => ENABLED (HeuristicBinary \/ HeuristicGeneral)))
    /\ [][pc = "heuristic" =>
            /\ pos' = pos + 1
            /\ Len(result') = Len(result) + 1
            /\ result'[pos] = current_color'
            /\ \A n \in DOMAIN result : result'[n] = result[n]]_vars

C9_Witness ==
    /\ pc # "heuristic" /\ Len(result) = 4 /\ pos = 5
    /\ result[2] # result[3]

\* C10: the step policy of the general-demand heuristic: the current state
\* starts white; at every position it is kept and assigned iff it has remaining
\* capacity (> 0) for the type at hand, and otherwise it is flipped once, the
\* change counter goes up by one and the new state is assigned; either way the
\* counter of (assigned state, type at hand) goes down by one and no other
\* counter changes.
C10_StepPolicy ==
    /\ [](pos = 1 => (current_color = "white" /\ changes = 0))
    /\ [][(variant = "general" /\ pc = "heuristic") =>
            LET car == sequence[pos] IN
            /\ IF colors[current_color][car] >= 1
               THEN current_color' = current_color /\ changes' = changes
               ELSE /\ current_color' # current_color
                    /\ current_color' \in {"white", "black"}
                    /\ changes' = changes + 1
            /\ result' = Append(result, current_color')
            /\ \A c \in {"white", "black"} : \A t \in types(sequence) :
                  colors'[c][t] = (IF c = current_color' /\ t = car
                                   THEN colors[c][t] - 1
                                   ELSE colors[c][t])]_vars

C10_Witness ==
    /\ variant = "general" /\ ValidInstance
    /\ pos = 4 /\ changes = 2
    /\ result = <<"white", "black", "white">>

\* The X vectors that meet both demand equations of the MultiPaintshop model.
DemandPoints(seq, white, black) ==
    {x \in Binary(seq) : /\ MeetWhiteDemand(seq, white, x)
                         /\ MeetBlackDemand(seq, black, x)}

\* The least sum of Z over the binary Z that the two linearization equations
\* admit together with x.
MinSumZ(x) ==
    MinOf({SumZ(z) : z \in {y \in [DOMAIN x -> {0, 1}] :
                                /\ LinearizeObjective1(x, y)
                                /\ LinearizeObjective2(x, y)}})

\* C11: linearization: for every 0/1 vector x over the positions the least
\* sum of Z that the two linearization equations admit equals the number of
\* adjacent positions of x that differ; hence the solve of the linearized
\* model reports the least number of adjacent disagreements of the feasible x
\* and returns an x that attains it.
C11_Linearization ==
    (variant = "general" /\ Solved) =>
        \A xs \in {DemandPoints(sequence, demand_white, demand_black)} :
            /\ \A x \in Binary(sequence) : MinSumZ(x) = ChangeCount(x)
            /\ opt_changes = MinOf({ChangeCount(x) : x \in xs})
            /\ \A x \in xs : ChangeCount(X) <= ChangeCount(x)

\* Every type of the sequence occurs exactly twice.
BinaryInstance(seq) == \A t \in types(seq) : count(seq, t) = 2

\* white_demand[t] = black_demand[t] = 1 for all t
Ones(seq) == [t \in types(seq) |-> 1]

\* C12: the binary variant is a special case of the general formulation: on
\* every binary instance (every type occurs exactly twice) the binary model and
\* the general-demand model with white and black demand 1 for every type have
\* the same feasible assignments and the same optimal objective value, which is
\* the value the solve of either reports.
C12_BinarySpecialCase ==
    (/\ BinaryInstance(sequence)
     /\ Solved
     /\ variant = "general" => (/\ demand_white = Ones(sequence)
                                /\ demand_black = Ones(sequence))) =>
        \A general \in {MultiPaintshopPoints(sequence, Ones(sequence), Ones(sequence))} :
        \A binary \in {PaintshopPoints(sequence)} :
            /\ {p[1] : p \in general} = binary
            /\ MinOf({SumZ(p[2]) : p \in general}) = MinOf({obj(x) : x \in binary})
            /\ opt_changes = MinOf({obj(x) : x \in binary})
            /\ opt_changes = MinOf({SumZ(p[2]) : p \in general})
            /\ X \in binary
            /\ X \in {p[1] : p \in general}

C12_Witness ==
    /\ variant = "binary" /\ Solved
    /\ sequence = <<"A", "B", "A", "B">>
    /\ X = <<1, 1, 0, 0>>
    /\ opt_changes = 1

\* The occurrences of type t among the positions not yet processed.
RemainingOccurrences(t) == Cardinality({n \in pos..Len(sequence) : sequence[n] = t})

\* C13: the greedy scan on a valid instance: after any number of processed
\* positions both remaining-capacity counters of every type are non-negative
\* and add up to the occurrences of the type among the positions not yet
\* processed; so whenever the current state is exhausted for the type at hand
\* the opposite state has capacity >= 1, and at termination every counter is 0.
C13_CapacityInvariant ==
    (variant = "general" /\ ValidInstance) =>
        /\ \A t \in types(sequence) :
              /\ colors["white"][t] >= 0
              /\ colors["black"][t] >= 0
              /\ colors["white"][t] + colors["black"][t] = RemainingOccurrences(t)
        /\ \A c \in {"white", "black"} :
              (pc = "heuristic" /\ current_color = c /\ colors[c][sequence[pos]] = 0) =>
                  \A d \in {"white", "black"} \ {c} : colors[d][sequence[pos]] >= 1
        /\ pc # "heuristic" =>
              \A c \in {"white", "black"} : \A t \in types(sequence) : colors[c][t] = 0

C13_Witness ==
    /\ variant = "general" /\ ValidInstance
    /\ pc = "heuristic" /\ pos = 3 /\ Len(sequence) = 4
    /\ changes = 1
    /\ colors[current_color][sequence[pos]] = 0

====
